---- MODULE Spec2Model ----
(***************************************************************************)
(* A model of src/components/PDFViewer.tsx: the PDFViewer component, its   *)
(* load effect (loadPDF), its render effect (renderPage and the resize     *)
(* listener) and the status view.                                          *)
(*                                                                         *)
(* Strings are sequences of tokens: an identifier such as                  *)
(* "https://arxiv.org/abs/1234.pdf" is <<"https://", "arxiv.org", "/abs/", *)
(* "1234", ".pdf">>.  The empty string (falsy in the source) is <<>>.      *)
(* A host update of a prop and the effects it schedules are one step; an   *)
(* awaited promise settling and the continuation it runs are one step.     *)
(* PDFCache (src/utils/PDFCache) is not part of the sources at hand; its   *)
(* get and set follow the BinaryCache contract of the specification.       *)
(***************************************************************************)
EXTENDS Integers, Sequences, FiniteSets, TLC

\* ------------------------------------------------------------ bounds
MaxLoads == 2
MaxRenders == 2
MaxUrlLen == 3
MaxWidth == 800

\* ------------------------------------------------------------ strings
Tokens ==
  {"arxiv.org", "ARXIV.ORG", "example.com", "/abs/", "/ABS/", "/pdf/",
   ".pdf", ".PDF", "1234"}

\* String.prototype.toLowerCase, token by token
LowerToken(t) ==
  CASE t = "ARXIV.ORG" -> "arxiv.org"
    [] t = "/ABS/" -> "/abs/"
    [] t = ".PDF" -> ".pdf"
    [] OTHER -> t

toLowerCase(s) == [i \in 1..Len(s) |-> LowerToken(s[i])]

\* String.prototype.includes
includes(s, t) == \E i \in 1..Len(s) : s[i] = t

\* s.replace(/\.pdf$/i, ''): drops one trailing ".pdf", whatever its case
ReplaceTrailingPdf(s) ==
  IF Len(s) > 0 /\ LowerToken(s[Len(s)]) = ".pdf"
    THEN SubSeq(s, 1, Len(s) - 1)
    ELSE s

\* s.replace(/\/abs\//i, '/pdf/'): no g flag, so the first match only
ReplaceFirstAbs(s) ==
  IF \E i \in 1..Len(s) : LowerToken(s[i]) = "/abs/"
    THEN LET first == CHOOSE i \in 1..Len(s) :
                        /\ LowerToken(s[i]) = "/abs/"
                        /\ \A j \in 1..(i - 1) : LowerToken(s[j]) # "/abs/"
         IN [s EXCEPT ![first] = "/pdf/"]
    ELSE s

\* loadPDF: const isArxiv = url.toLowerCase().includes('arxiv.org')
isArxiv(u) == includes(toLowerCase(u), "arxiv.org")

\* finalUrl with the /abs/ replacement left out
finalUrl_KeepsAbs(u) ==
  IF isArxiv(u) THEN ReplaceTrailingPdf(u) ELSE u

\* loadPDF: let finalUrl = url; if (isArxiv) { ... finalUrl = cleanUrl }
finalUrl(u) ==
  IF isArxiv(u) THEN ReplaceFirstAbs(ReplaceTrailingPdf(u)) ELSE u

NoRequest == [kind |-> "none", url |-> <<>>, disableRange |-> FALSE,
              disableStream |-> FALSE]

\* the argument of pdfjsLib.getDocument on a cache hit: { data: cachedData }
DataRequest == [kind |-> "data", url |-> <<>>, disableRange |-> FALSE,
                disableStream |-> FALSE]

\* the argument of pdfjsLib.getDocument on a cache miss: pdfOptions
pdfOptions(u) ==
  [kind |-> "url", url |-> finalUrl(u),
   disableRange |-> isArxiv(u), disableStream |-> isArxiv(u)]

\* ------------------------------------------------------------ values
NoUrl == <<>>
UrlA == <<"arxiv.org", "/abs/", "1234">>
UrlB == <<"example.com", "1234", ".pdf">>
Urls == {UrlA, UrlB}

\* every identifier of at most MaxUrlLen tokens
Identifiers ==
  UNION {[1..n -> Tokens] : n \in 1..MaxUrlLen}

NoError == <<>>
Absent == <<>>

\* the bytes the origin serves for an identifier
BytesOf(u) == <<"%PDF">> \o u

\* what a rejected promise carries: getDocument rejects with an Error that
\* has a message (a transport error), getData with one that has none
FetchFailed == [isError |-> TRUE, name |-> "Error", message |-> "Failed to fetch"]
DataFailed == [isError |-> TRUE, name |-> "InvalidPDFException", message |-> ""]

\* String(reason): Error.prototype.toString for an Error, the string itself
\* for a thrown string
ReasonToString(r) ==
  IF r.isError
    THEN IF r.message = "" THEN <<r.name>> ELSE <<r.name, ": ", r.message>>
    ELSE <<r.message>>

NoReason == [isError |-> FALSE, name |-> "", message |-> ""]

\* `Failed to load PDF: ${reason.message || reason}`
LoadErrorMessage(r) ==
  <<"Failed to load PDF: ">>
    \o (IF r.message # "" THEN <<r.message>> ELSE ReasonToString(r))

\* ------------------------------------------------------------ engine
\* pdfDoc.numPages of the document decoded from some bytes
numPages(bytes) == IF bytes = BytesOf(UrlB) THEN 1 ELSE 2

\* PDFDocumentProxy: a new object per getDocument call (id: the load's number)
NoDoc == [id |-> 0, bytes |-> <<>>, numPages |-> 0]
Doc(id, bytes) == [id |-> id, bytes |-> bytes, numPages |-> numPages(bytes)]

\* pdfPage.getViewport({ scale: 1 }): the intrinsic size of a page of a
\* document (a 600 x 800 page; US letter, upright and turned)
UnitViewport(doc, pg) ==
  IF doc.bytes = BytesOf(UrlB) THEN [width |-> 600, height |-> 800]
  ELSE IF pg = 1 THEN [width |-> 612, height |-> 792]
  ELSE [width |-> 792, height |-> 612]

Pages == 1..2

\* a / b as a fraction in lowest terms; Math.floor of a fraction; a product
Frac(a, b) == [num |-> a, den |-> b]
floor(q) == q.num \div q.den
Times(q, k) == [num |-> q.num * k.num, den |-> q.den * k.den]

\* the displays the window is moved between: container width, pixel ratio
Displays ==
  {[width |-> 612, ratio |-> Frac(1, 1)], [width |-> 800, ratio |-> Frac(2, 1)]}

\* renderPage: const outputScale = window.devicePixelRatio || 1
outputScaleOf(ratio) == IF ratio.num = 0 THEN Frac(1, 1) ELSE ratio

\* renderPage: scale = containerWidth / viewport.width;
\* scaledViewport = pdfPage.getViewport({ scale })
getViewport(viewport, scale) ==
  [scale |-> scale,
   width |-> Times(Frac(viewport.width, 1), scale),
   height |-> Times(Frac(viewport.height, 1), scale)]

NoViewport == [scale |-> Frac(0, 1), width |-> Frac(0, 1), height |-> Frac(0, 1)]

\* the <canvas> element: absent while the error view is shown, and a new
\* element (300 x 150, no style size) when the viewer is shown again
NoCanvas == [mounted |-> FALSE, width |-> 0, height |-> 0,
             styleWidth |-> 0, styleHeight |-> 0]
BlankCanvas == [mounted |-> TRUE, width |-> 300, height |-> 150,
                styleWidth |-> 0, styleHeight |-> 0]

\* SizedCanvas, had the backing store been scaled from the floored display
\* size
SizedCanvas_FloorsBeforeScaling(vp, outputScale) ==
  [mounted |-> TRUE,
   width |-> floor(Times(Frac(floor(vp.width), 1), outputScale)),
   height |-> floor(Times(Frac(floor(vp.height), 1), outputScale)),
   styleWidth |-> floor(vp.width),
   styleHeight |-> floor(vp.height)]

\* renderPage: outputScale, canvas.width/height, canvas.style.width/height
SizedCanvas(vp, outputScale) ==
  [mounted |-> TRUE,
   width |-> floor(Times(vp.width, outputScale)),
   height |-> floor(Times(vp.height, outputScale)),
   styleWidth |-> floor(vp.width),
   styleHeight |-> floor(vp.height)]

\* renderContext.transform: undefined (<<>>) when outputScale is 1
transform(outputScale) ==
  IF outputScale # Frac(1, 1)
    THEN <<outputScale, 0, 0, outputScale, 0, 0>>
    ELSE <<>>

\* ------------------------------------------------------------ PDFCache
\* PDFCache.get(key): resolves with the stored bytes, or with nothing when
\* the key is absent; a storage failure resolves like an absent key
PDFCache_get(store, key) ==
  { [data |-> IF \E e \in store : e.key = key
                THEN (CHOOSE e \in store : e.key = key).bytes
                ELSE Absent,
     failed |-> FALSE],
    [data |-> Absent, failed |-> TRUE] }

\* PDFCache.set(key, data): stores the bytes under the key and resolves; a
\* storage failure is logged by the cache, stores nothing, and resolves too
PDFCache_set(store, key, data) ==
  { [store |-> {e \in store : e.key # key} \cup {[key |-> key, bytes |-> data]},
     failed |-> FALSE],
    [store |-> store, failed |-> TRUE] }

\* ------------------------------------------------------------ state
VARIABLES
  url,               \* prop url
  page,              \* prop page
  pdf,               \* useState: the document, NoDoc for null
  loading,           \* useState
  rendering,         \* useState
  error,             \* useState: the message, NoError for null
  canvas,            \* canvasRef.current and the element's size
  containerWidth,    \* containerRef.current.clientWidth
  devicePixelRatio,  \* window.devicePixelRatio
  listener,          \* the renderPage closure registered for 'resize'
  cache,             \* the store behind PDFCache
  loads,             \* loadPDF calls, in call order, each at its await
  renders,           \* renderPage calls, in call order, each at its promise
  onLoadLast,        \* the last onLoad call: its number and argument
  onRenderLast       \* the last onRender call: its number and argument

vars ==
  <<url, page, pdf, loading, rendering, error, canvas, containerWidth,
    devicePixelRatio, listener, cache, loads, renders, onLoadLast,
    onRenderLast>>

NoListener == [on |-> FALSE, pdf |-> NoDoc, page |-> 0]

\* the view returned by the component: the error card replaces the viewer
\* (and its canvas) exactly when error is set
MountCanvas(oldCanvas, newError) ==
  IF newError # NoError THEN NoCanvas
  ELSE IF oldCanvas.mounted THEN oldCanvas
  ELSE BlankCanvas

\* a loadPDF call suspended at await PDFCache.get(url)
NewLoad(u) ==
  [url |-> u, stage |-> "get", cachedData |-> Absent,
   request |-> NoRequest, reason |-> NoReason]

\* a renderPage call suspended at pdf.getPage(page)
NewRender(doc, pg) ==
  [pdf |-> doc, page |-> pg, stage |-> "getPage",
   containerWidth |-> 0, outputScale |-> Frac(0, 1), viewport |-> NoViewport,
   transform |-> <<>>]

\* a renderPage call whose promises have settled: its locals are gone
Settled(stage) == [NewRender(NoDoc, 0) EXCEPT !.stage = stage]

\* the load effect, deps [url]
LoadEffect(u) ==
  IF u = NoUrl
    THEN UNCHANGED <<loading, error, canvas, loads>>
    ELSE /\ loading' = TRUE
         /\ error' = NoError
         /\ canvas' = MountCanvas(canvas, NoError)
         /\ loads' = Append(loads, NewLoad(u))

\* the render effect, deps [pdf, page]: the previous run's cleanup removes
\* its listener, then the body runs against the committed view
RenderEffect(doc, pg, view) ==
  IF doc = NoDoc \/ ~view.mounted
    THEN /\ listener' = NoListener
         /\ UNCHANGED <<rendering, renders>>
    ELSE /\ rendering' = TRUE
         /\ renders' = Append(renders, NewRender(doc, pg))
         /\ listener' = [on |-> TRUE, pdf |-> doc, page |-> pg]

\* the state after construction with no url: the first commit; the cache,
\* which outlives the component, is empty or holds UrlB from an earlier run
Init ==
  /\ url = NoUrl
  /\ page = 1
  /\ pdf = NoDoc
  /\ loading = FALSE
  /\ rendering = FALSE
  /\ error = NoError
  /\ canvas = BlankCanvas
  /\ containerWidth = 612
  /\ devicePixelRatio = Frac(1, 1)
  /\ listener = NoListener
  /\ cache \in SUBSET {[key |-> UrlB, bytes |-> BytesOf(UrlB)]}
  /\ loads = <<>>
  /\ renders = <<>>
  /\ onLoadLast = [n |-> 0, load |-> 0, totalPages |-> 0]
  /\ onRenderLast = [n |-> 0, render |-> 0, viewport |-> NoViewport]

\* ------------------------------------------------------------ host
\* the host passes another url: the load effect runs
SetUrl(u) ==
  /\ u # url
  /\ u # NoUrl => Len(loads) < MaxLoads
  /\ url' = u
  /\ LoadEffect(u)
  /\ UNCHANGED <<page, pdf, rendering, containerWidth, devicePixelRatio,
                 listener, cache, renders, onLoadLast, onRenderLast>>

\* SetPage, had the load effect also depended on page: a page change while
\* the error view is shown looks the source up again
SetPage_RetriesLoad(p) ==
  /\ p # page
  /\ (pdf # NoDoc /\ canvas.mounted) => Len(renders) < MaxRenders
  /\ page' = p
  /\ RenderEffect(pdf, p, canvas)
  /\ IF error # NoError /\ Len(loads) < MaxLoads
       THEN LoadEffect(url)
       ELSE UNCHANGED <<loading, error, canvas, loads>>
  /\ UNCHANGED <<url, pdf, containerWidth, devicePixelRatio, cache,
                 onLoadLast, onRenderLast>>

\* the host passes another page: the render effect runs
SetPage(p) ==
  /\ p # page
  /\ (pdf # NoDoc /\ canvas.mounted) => Len(renders) < MaxRenders
  /\ page' = p
  /\ RenderEffect(pdf, p, canvas)
  /\ UNCHANGED <<url, pdf, loading, error, canvas, containerWidth,
                 devicePixelRatio, cache, loads, onLoadLast, onRenderLast>>

\* the window is resized, to the display it is on or to another: the
\* registered renderPage closure is called
Resize(d) ==
  /\ listener.on => Len(renders) < MaxRenders
  /\ containerWidth' = d.width
  /\ devicePixelRatio' = d.ratio
  /\ renders' = IF listener.on
                  THEN Append(renders, NewRender(listener.pdf, listener.page))
                  ELSE renders
  /\ UNCHANGED <<url, page, pdf, loading, rendering, error, canvas, listener,
                 cache, loads, onLoadLast, onRenderLast>>

\* ------------------------------------------------------------ loadPDF
\* catch (reason): setError(...); setLoading(false)
LoadCatch(i, reason) ==
  /\ loads' = [loads EXCEPT ![i] = [NewLoad(loads[i].url) EXCEPT
                                      !.stage = "failed", !.reason = reason]]
  /\ error' = LoadErrorMessage(reason)
  /\ loading' = FALSE
  /\ canvas' = MountCanvas(canvas, LoadErrorMessage(reason))
  /\ UNCHANGED <<pdf, rendering, listener, renders, onLoadLast>>

\* setPdf(pdfDoc); onLoad(pdfDoc.numPages); setLoading(false), and the render
\* effect the new pdf triggers
LoadFinish(i) ==
  LET pdfDoc == Doc(i, BytesOf(loads[i].url)) IN
  /\ canvas.mounted => Len(renders) < MaxRenders
  /\ loads' = [loads EXCEPT ![i] = [NewLoad(loads[i].url) EXCEPT !.stage = "done"]]
  /\ pdf' = pdfDoc
  /\ onLoadLast' = [n |-> onLoadLast.n + 1, load |-> i,
                    totalPages |-> pdfDoc.numPages]
  /\ loading' = FALSE
  /\ RenderEffect(pdfDoc, page, canvas)
  /\ UNCHANGED <<error, canvas>>

\* LoadGetDone with the cached bytes read but the document fetched anyway
LoadGetDone_FetchesAnyway(i) ==
  /\ i \in 1..Len(loads)
  /\ loads[i].stage = "get"
  /\ \E got \in PDFCache_get(cache, loads[i].url) :
       loads' = [loads EXCEPT
                   ![i].stage = "decode",
                   ![i].cachedData = got.data,
                   ![i].request = pdfOptions(loads[i].url)]
  /\ UNCHANGED <<url, page, pdf, loading, rendering, error, canvas,
                 containerWidth, devicePixelRatio, listener, cache, renders,
                 onLoadLast, onRenderLast>>

\* LoadGetDone with a storage failure of the lookup thrown into the catch
LoadGetDone_FailureThrows(i) ==
  /\ i \in 1..Len(loads)
  /\ loads[i].stage = "get"
  /\ \E got \in PDFCache_get(cache, loads[i].url) :
       IF got.failed
         THEN LoadCatch(i, [isError |-> TRUE, name |-> "Error",
                            message |-> "cache read failed"])
         ELSE /\ loads' = [loads EXCEPT
                             ![i].stage = "decode",
                             ![i].cachedData = got.data,
                             ![i].request = IF got.data # Absent
                                              THEN DataRequest
                                              ELSE pdfOptions(loads[i].url)]
              /\ UNCHANGED <<pdf, loading, rendering, error, canvas, listener,
                             renders, onLoadLast>>
  /\ UNCHANGED <<url, page, containerWidth, devicePixelRatio, cache,
                 onRenderLast>>

\* await PDFCache.get(url) resolves: getDocument is called with the cached
\* bytes if there are any, with pdfOptions (a network fetch) if not
LoadGetDone(i) ==
  /\ i \in 1..Len(loads)
  /\ loads[i].stage = "get"
  /\ \E got \in PDFCache_get(cache, loads[i].url) :
       loads' = [loads EXCEPT
                   ![i].stage = "decode",
                   ![i].cachedData = got.data,
                   ![i].request = IF got.data # Absent
                                    THEN DataRequest
                                    ELSE pdfOptions(loads[i].url)]
  /\ UNCHANGED <<url, page, pdf, loading, rendering, error, canvas,
                 containerWidth, devicePixelRatio, listener, cache, renders,
                 onLoadLast, onRenderLast>>

\* await loadingTask.promise resolves: a fetched document goes on to
\* getData, a cached one is finished
LoadDecodeOk(i) ==
  /\ i \in 1..Len(loads)
  /\ loads[i].stage = "decode"
  /\ IF loads[i].cachedData = Absent
       THEN /\ loads' = [loads EXCEPT ![i].stage = "getData"]
            /\ UNCHANGED <<pdf, loading, rendering, listener, renders,
                           onLoadLast, error, canvas>>
       ELSE LoadFinish(i)
  /\ UNCHANGED <<url, page, containerWidth, devicePixelRatio, cache,
                 onRenderLast>>

\* await loadingTask.promise rejects
LoadDecodeFail(i) ==
  /\ i \in 1..Len(loads)
  /\ loads[i].stage = "decode"
  /\ LoadCatch(i, FetchFailed)
  /\ UNCHANGED <<url, page, containerWidth, devicePixelRatio, cache,
                 onRenderLast>>

\* await pdfDoc.getData() resolves: PDFCache.set(url, data) is called
LoadGetDataOk(i) ==
  /\ i \in 1..Len(loads)
  /\ loads[i].stage = "getData"
  /\ loads' = [loads EXCEPT ![i].stage = "set"]
  /\ UNCHANGED <<url, page, pdf, loading, rendering, error, canvas,
                 containerWidth, devicePixelRatio, listener, cache, renders,
                 onLoadLast, onRenderLast>>

\* await pdfDoc.getData() rejects
LoadGetDataFail(i) ==
  /\ i \in 1..Len(loads)
  /\ loads[i].stage = "getData"
  /\ LoadCatch(i, DataFailed)
  /\ UNCHANGED <<url, page, containerWidth, devicePixelRatio, cache,
                 onRenderLast>>

\* LoadSetDone with a storage failure of the write thrown into the catch
LoadSetDone_FailureThrows(i) ==
  /\ i \in 1..Len(loads)
  /\ loads[i].stage = "set"
  /\ \E put \in PDFCache_set(cache, loads[i].url, BytesOf(loads[i].url)) :
       /\ cache' = put.store
       /\ IF put.failed
            THEN LoadCatch(i, [isError |-> TRUE, name |-> "Error",
                               message |-> "cache write failed"])
            ELSE LoadFinish(i)
  /\ UNCHANGED <<url, page, containerWidth, devicePixelRatio, onRenderLast>>

\* LoadSetDone with the bytes stored under the rewritten location
LoadSetDone_KeyIsFinalUrl(i) ==
  /\ i \in 1..Len(loads)
  /\ loads[i].stage = "set"
  /\ \E put \in PDFCache_set(cache, finalUrl(loads[i].url),
                              BytesOf(loads[i].url)) :
       /\ cache' = put.store
       /\ LoadFinish(i)
  /\ UNCHANGED <<url, page, containerWidth, devicePixelRatio, onRenderLast>>

\* await PDFCache.set(url, data) resolves, stored or not: the load finishes
LoadSetDone(i) ==
  /\ i \in 1..Len(loads)
  /\ loads[i].stage = "set"
  /\ \E put \in PDFCache_set(cache, loads[i].url, BytesOf(loads[i].url)) :
       /\ cache' = put.store
       /\ LoadFinish(i)
  /\ UNCHANGED <<url, page, containerWidth, devicePixelRatio, onRenderLast>>

\* ------------------------------------------------------------ renderPage
\* RenderGetPageOk, had the scale been taken against the canvas as it is
\* displayed rather than against the page at scale 1
RenderGetPageOk_ScalesFromCanvas(r) ==
  /\ r \in 1..Len(renders)
  /\ renders[r].stage = "getPage"
  /\ renders[r].page \in 1..renders[r].pdf.numPages
  /\ IF canvas.mounted
       THEN LET viewport ==
                  IF canvas.styleWidth > 0
                    THEN [width |-> canvas.styleWidth,
                          height |-> canvas.styleHeight]
                    ELSE UnitViewport(renders[r].pdf, renders[r].page)
                scale == Frac(containerWidth, viewport.width)
                scaledViewport == getViewport(viewport, scale)
                outputScale == outputScaleOf(devicePixelRatio)
            IN /\ canvas' = SizedCanvas(scaledViewport, outputScale)
               /\ renders' = [renders EXCEPT
                    ![r].stage = "render",
                    ![r].containerWidth = containerWidth,
                    ![r].outputScale = outputScale,
                    ![r].viewport = scaledViewport,
                    ![r].transform = transform(outputScale)]
       ELSE /\ renders' = [renders EXCEPT ![r] = Settled("failed")]
            /\ UNCHANGED canvas
  /\ UNCHANGED <<url, page, pdf, loading, rendering, error, containerWidth,
                 devicePixelRatio, listener, cache, loads, onLoadLast,
                 onRenderLast>>

\* pdf.getPage(page) resolves (the page exists): the then-callback sizes
\* the canvas and calls pdfPage.render; with the error view shown
\* canvasRef.current is null and the callback throws
RenderGetPageOk(r) ==
  /\ r \in 1..Len(renders)
  /\ renders[r].stage = "getPage"
  /\ renders[r].page \in 1..renders[r].pdf.numPages
  /\ IF canvas.mounted
       THEN LET viewport == UnitViewport(renders[r].pdf, renders[r].page)
                scale == Frac(containerWidth, viewport.width)
                scaledViewport == getViewport(viewport, scale)
                outputScale == outputScaleOf(devicePixelRatio)
            IN /\ canvas' = SizedCanvas(scaledViewport, outputScale)
               /\ renders' = [renders EXCEPT
                    ![r].stage = "render",
                    ![r].containerWidth = containerWidth,
                    ![r].outputScale = outputScale,
                    ![r].viewport = scaledViewport,
                    ![r].transform = transform(outputScale)]
       ELSE /\ renders' = [renders EXCEPT ![r] = Settled("failed")]
            /\ UNCHANGED canvas
  /\ UNCHANGED <<url, page, pdf, loading, rendering, error, containerWidth,
                 devicePixelRatio, listener, cache, loads, onLoadLast,
                 onRenderLast>>

\* pdf.getPage(page) rejects (no such page): no rejection handler
RenderGetPageFail(r) ==
  /\ r \in 1..Len(renders)
  /\ renders[r].stage = "getPage"
  /\ renders[r].page \notin 1..renders[r].pdf.numPages
  /\ renders' = [renders EXCEPT ![r] = Settled("failed")]
  /\ UNCHANGED <<url, page, pdf, loading, rendering, error, canvas,
                 containerWidth, devicePixelRatio, listener, cache, loads,
                 onLoadLast, onRenderLast>>

\* pdfPage.render(renderContext).promise resolves:
\* setRendering(false); onRender(scaledViewport)
RenderOk(r) ==
  /\ r \in 1..Len(renders)
  /\ renders[r].stage = "render"
  /\ renders' = [renders EXCEPT ![r] = Settled("done")]
  /\ rendering' = FALSE
  /\ onRenderLast' = [n |-> onRenderLast.n + 1, render |-> r,
                      viewport |-> renders[r].viewport]
  /\ UNCHANGED <<url, page, pdf, loading, error, canvas, containerWidth,
                 devicePixelRatio, listener, cache, loads, onLoadLast>>

\* pdfPage.render(renderContext).promise rejects: no rejection handler
RenderFail(r) ==
  /\ r \in 1..Len(renders)
  /\ renders[r].stage = "render"
  /\ renders' = [renders EXCEPT ![r] = Settled("failed")]
  /\ UNCHANGED <<url, page, pdf, loading, rendering, error, canvas,
                 containerWidth, devicePixelRatio, listener, cache, loads,
                 onLoadLast, onRenderLast>>

\* ------------------------------------------------------------ specification
Next ==
  \/ \E u \in Urls \cup {NoUrl} : SetUrl(u)
  \/ \E p \in Pages : SetPage(p)
  \/ \E d \in Displays : Resize(d)
  \/ \E i \in 1..MaxLoads : LoadGetDone(i)
  \/ \E i \in 1..MaxLoads : LoadDecodeOk(i)
  \/ \E i \in 1..MaxLoads : LoadDecodeFail(i)
  \/ \E i \in 1..MaxLoads : LoadGetDataOk(i)
  \/ \E i \in 1..MaxLoads : LoadGetDataFail(i)
  \/ \E i \in 1..MaxLoads : LoadSetDone(i)
  \/ \E r \in 1..MaxRenders : RenderGetPageOk(r)
  \/ \E r \in 1..MaxRenders : RenderGetPageFail(r)
  \/ \E r \in 1..MaxRenders : RenderOk(r)
  \/ \E r \in 1..MaxRenders : RenderFail(r)

Spec == Init /\ [][Next]_vars

\* The loads alone: the host changes url, and the promises of loadPDF settle.
\* The steps left out (a page change, a resize, a renderPage promise
\* settling) write none of url, loads, cache, pdf, loading, error, onLoadLast
\* or the canvas being mounted, and the steps kept read nothing else but page,
\* which they hand to renderPage: what holds of those variables here holds
\* under Spec.
LoadNext ==
  \/ \E u \in Urls \cup {NoUrl} : SetUrl(u)
  \/ \E i \in 1..MaxLoads : LoadGetDone(i)
  \/ \E i \in 1..MaxLoads : LoadDecodeOk(i)
  \/ \E i \in 1..MaxLoads : LoadDecodeFail(i)
  \/ \E i \in 1..MaxLoads : LoadGetDataOk(i)
  \/ \E i \in 1..MaxLoads : LoadGetDataFail(i)
  \/ \E i \in 1..MaxLoads : LoadSetDone(i)

SpecLoad == Init /\ [][LoadNext]_vars

\* The resolver alone: the component is constructed with any identifier of at
\* most MaxUrlLen tokens and an empty cache, and its lookup is answered.
InitResolver ==
  /\ url \in Identifiers
  /\ page = 1
  /\ pdf = NoDoc
  /\ loading = TRUE
  /\ rendering = FALSE
  /\ error = NoError
  /\ canvas = BlankCanvas
  /\ containerWidth = 612
  /\ devicePixelRatio = Frac(1, 1)
  /\ listener = NoListener
  /\ cache = {}
  /\ loads = <<NewLoad(url)>>
  /\ renders = <<>>
  /\ onLoadLast = [n |-> 0, load |-> 0, totalPages |-> 0]
  /\ onRenderLast = [n |-> 0, render |-> 0, viewport |-> NoViewport]

SpecResolver == InitResolver /\ [][LoadGetDone(1)]_vars

\* One renderPage call alone: a document has just been loaded and the render
\* effect has called renderPage, on any page of any document, in a container
\* of any width up to MaxWidth, on a display of any of the pixel ratios (0
\* for a window that reports none).
PixelRatios == {Frac(0, 1), Frac(1, 1), Frac(3, 2), Frac(2, 1)}

InitGeometry ==
  /\ url \in Urls
  /\ pdf = Doc(1, BytesOf(url))
  /\ page \in 1..pdf.numPages
  /\ loading = FALSE
  /\ rendering = TRUE
  /\ error = NoError
  /\ canvas = BlankCanvas
  /\ containerWidth \in 1..MaxWidth
  /\ devicePixelRatio \in PixelRatios
  /\ listener = [on |-> TRUE, pdf |-> pdf, page |-> page]
  /\ cache = {}
  /\ loads = <<[NewLoad(url) EXCEPT !.stage = "done"]>>
  /\ renders = <<NewRender(pdf, page)>>
  /\ onLoadLast = [n |-> 1, load |-> 1, totalPages |-> pdf.numPages]
  /\ onRenderLast = [n |-> 0, render |-> 0, viewport |-> NoViewport]

GeometryNext ==
  \/ RenderGetPageOk(1)
  \/ RenderOk(1)

SpecGeometry == InitGeometry /\ [][GeometryNext]_vars

\* The renders alone: a document has just been loaded and the render effect
\* has called renderPage; the host changes the page, the window is resized,
\* and the promises of renderPage settle.
InitRender ==
  /\ url \in Urls
  /\ pdf = Doc(1, BytesOf(url))
  /\ page \in 1..pdf.numPages
  /\ loading = FALSE
  /\ rendering = TRUE
  /\ error = NoError
  /\ canvas = BlankCanvas
  /\ containerWidth = 612
  /\ devicePixelRatio = Frac(1, 1)
  /\ listener = [on |-> TRUE, pdf |-> pdf, page |-> page]
  /\ cache = {}
  /\ loads = <<[NewLoad(url) EXCEPT !.stage = "done"]>>
  /\ renders = <<NewRender(pdf, page)>>
  /\ onLoadLast = [n |-> 1, load |-> 1, totalPages |-> pdf.numPages]
  /\ onRenderLast = [n |-> 0, render |-> 0, viewport |-> NoViewport]

RenderNext ==
  \/ \E p \in Pages : SetPage(p)
  \/ \E d \in Displays : Resize(d)
  \/ \E r \in 1..MaxRenders : RenderGetPageOk(r)
  \/ \E r \in 1..MaxRenders : RenderGetPageFail(r)
  \/ \E r \in 1..MaxRenders : RenderOk(r)
  \/ \E r \in 1..MaxRenders : RenderFail(r)

SpecRender == InitRender /\ [][RenderNext]_vars

\* ------------------------------------------------------------ claims
\* C1: when the source changed while a load was in flight, then once every
\* load has settled the document, the error message and the loading status
\* are those of the load of the latest source: its document and no error if
\* it succeeded, its failure message if it failed.
C1_FinalStateIsLatestOutcome ==
  ( /\ Len(loads) >= 2
    /\ url = loads[Len(loads)].url
    /\ \A i \in 1..Len(loads) : loads[i].stage \in {"done", "failed"} )
  => LET latest == loads[Len(loads)] IN
       /\ loading = FALSE
       /\ latest.stage = "done" => (pdf.id = Len(loads) /\ error = NoError)
       /\ latest.stage = "failed" => error = LoadErrorMessage(latest.reason)

\* C2 as stated: a load whose lookup is answered while the cache holds its
\* identifier (every load started while the cache holds it is one: entries
\* are never removed) goes on with the cached bytes and no network fetch.
C2_HeldKeyNeverFetched ==
  [][ \A i \in 1..Len(loads) :
        ( /\ loads[i].stage = "get"
          /\ loads'[i].stage # "get"
          /\ \E e \in cache : e.key = loads[i].url )
        => loads'[i].request = DataRequest ]_vars

\* C2 amended: a load whose lookup is answered with the bytes the cache holds
\* for its identifier decodes exactly those bytes, issues no network fetch
\* then or later, and never fetches the data back or writes the cache.
C2_CachedBytesNeverFetched ==
  \A i \in 1..Len(loads) :
    LET l == loads[i] IN
    /\ l.cachedData # Absent =>
         /\ l.request = DataRequest
         /\ l.stage = "decode"
         /\ [key |-> l.url, bytes |-> l.cachedData] \in cache
    /\ l.stage \in {"getData", "set"} => l.request = pdfOptions(l.url)

\* a second load of an identifier is running on the bytes the cache holds
C2_Witness ==
  \E i \in 1..Len(loads) :
    /\ loads[i].request = DataRequest
    /\ \E j \in 1..(i - 1) : loads[j].url = loads[i].url

\* C3: once the load of the current source has failed, the error message
\* contains the text of that failure's cause, and until the source changes
\* no renderPage call is made, by a page change or by a resize.
C3_FailedLoadShowsCauseAndNeverRenders ==
  [][ ( /\ Len(loads) >= 1
        /\ url = loads[Len(loads)].url
        /\ loads[Len(loads)].stage = "failed"
        /\ url' = url )
      => LET reason == loads[Len(loads)].reason
             text == IF reason.message # "" THEN <<reason.message>>
                     ELSE ReasonToString(reason)
         IN /\ \E k \in 1..Len(error) :
                 SubSeq(error, k, k + Len(text) - 1) = text
            /\ Len(renders') = Len(renders) ]_vars

\* C4: a renderPage call that fails (getPage or render rejecting, or the
\* callback throwing) sets an error message and leaves the rendering status
\* off.
C4_RenderFailureBecomesError ==
  [][ \A r \in 1..Len(renders) :
        (renders[r].stage \in {"getPage", "render"} /\ renders'[r].stage = "failed")
        => (error' # NoError /\ rendering' = FALSE) ]_vars

\* C5: a render that completes for a document, page, container width or
\* pixel ratio other than the current ones is not reported through onRender.
C5_StaleRenderNotReported ==
  [][ \A r \in 1..Len(renders) :
        ( /\ renders[r].stage = "render"
          /\ renders'[r].stage = "done"
          /\ <<renders[r].pdf.id, renders[r].page, renders[r].containerWidth,
               renders[r].outputScale>>
             # <<pdf.id, page, containerWidth,
                 outputScaleOf(devicePixelRatio)>> )
        => onRenderLast' = onRenderLast ]_vars

\* C6: while the load of the current source has not succeeded (it is in
\* flight, or it failed), a step of the host or of a render (one that settles
\* no load) starts no renderPage call and reports nothing through onRender:
\* any document there is belongs to an earlier source.
C6_OldDocumentNeverRendered ==
  [][ ( /\ Len(loads) >= 1
        /\ url = loads[Len(loads)].url
        /\ loads[Len(loads)].stage # "done"
        /\ url' = url
        /\ loads' = loads )
      => (Len(renders') = Len(renders) /\ onRenderLast' = onRenderLast) ]_vars

\* C7 as stated: for an identifier that contains arxiv.org the fetch has
\* range and stream requests disabled and a location that does not end in
\* .pdf and holds no /abs/ segment; for any other identifier the location is
\* the identifier and both stay enabled.
C7_RewrittenLocationHasNoPdfNoAbs ==
  \A i \in 1..Len(loads) :
    loads[i].request.kind = "url" =>
      LET u == loads[i].url
          req == loads[i].request
      IN IF \E k \in 1..Len(u) : LowerToken(u[k]) = "arxiv.org"
           THEN /\ req.disableRange /\ req.disableStream
                /\ ~(Len(req.url) > 0 /\ LowerToken(req.url[Len(req.url)]) = ".pdf")
                /\ \A k \in 1..Len(req.url) : LowerToken(req.url[k]) # "/abs/"
           ELSE /\ req.url = u
                /\ ~req.disableRange /\ ~req.disableStream

\* C7 amended: for an identifier that contains arxiv.org the fetch has range
\* and stream requests disabled and its location is the identifier without
\* one trailing .pdf and with its first /abs/ segment replaced by /pdf/, all
\* else kept (so it ends in .pdf only if the identifier ended in two, and
\* holds an /abs/ only if the identifier held two); for any other identifier
\* the location is the identifier and both stay enabled.
C7_OneSuffixAndFirstSegmentRewritten ==
  \A i \in 1..Len(loads) :
    loads[i].request.kind = "url" =>
      LET u == loads[i].url
          req == loads[i].request
          n == Len(u)
          endsPdf == LowerToken(u[n]) = ".pdf"
          m == IF endsPdf THEN n - 1 ELSE n
          absAt == {k \in 1..m : LowerToken(u[k]) = "/abs/"}
      IN IF \E k \in 1..n : LowerToken(u[k]) = "arxiv.org"
           THEN /\ req.disableRange /\ req.disableStream
                /\ Len(req.url) = m
                /\ \A k \in 1..m :
                     req.url[k] = IF k \in absAt /\ \A j \in absAt : k <= j
                                    THEN "/pdf/" ELSE u[k]
                /\ (m > 0 /\ LowerToken(req.url[m]) = ".pdf")
                     => (n >= 2 /\ LowerToken(u[n - 1]) = ".pdf")
                /\ (\E k \in 1..m : LowerToken(req.url[k]) = "/abs/")
                     => Cardinality(absAt) >= 2
           ELSE /\ req.url = u
                /\ ~req.disableRange /\ ~req.disableStream

\* an arxiv.org identifier with an /abs/ segment and a .pdf suffix has been
\* turned into a fetch of the /pdf/ location without the suffix
C7_Witness ==
  /\ loads[1].url = <<"ARXIV.ORG", "/abs/", ".PDF">>
  /\ loads[1].request =
       [kind |-> "url", url |-> <<"ARXIV.ORG", "/pdf/">>,
        disableRange |-> TRUE, disableStream |-> TRUE]

\* C8: when PDFCache.set settles without having stored the bytes, the load
\* finishes as a success: the fetched document is set, onLoad is called with
\* its page count, loading is cleared and no error is set.
C8_SetFailureIgnored ==
  [][ \A i \in 1..Len(loads) :
        ( /\ loads[i].stage = "set"
          /\ loads'[i].stage # "set"
          /\ ~\E e \in cache' : e.key = loads[i].url )
        => /\ loads'[i].stage = "done"
           /\ pdf' = Doc(i, BytesOf(loads[i].url))
           /\ onLoadLast' = [n |-> onLoadLast.n + 1, load |-> i,
                             totalPages |-> numPages(BytesOf(loads[i].url))]
           /\ loading' = FALSE
           /\ error' = error ]_vars

\* a load has finished as a success although the cache holds nothing for its
\* identifier: it fetched, and its PDFCache.set stored nothing
C8_Witness ==
  \E i \in 1..Len(loads) :
    /\ loads[i].stage = "done"
    /\ pdf.id = i
    /\ onLoadLast.load = i
    /\ error = NoError
    /\ ~\E e \in cache : e.key = loads[i].url

\* C9: when PDFCache.get answers with nothing although the cache holds the
\* identifier (a storage failure), the load goes on exactly as after a miss:
\* to the network fetch of its fetch plan, with status, error and document
\* untouched.
C9_GetFailureIsMiss ==
  [][ \A i \in 1..Len(loads) :
        ( /\ loads[i].stage = "get"
          /\ loads'[i].stage # "get"
          /\ \E e \in cache : e.key = loads[i].url
          /\ loads'[i].cachedData = Absent )
        => /\ loads'[i] = [loads[i] EXCEPT !.stage = "decode",
                                           !.request = pdfOptions(loads[i].url)]
           /\ error' = error
           /\ loading' = loading
           /\ pdf' = pdf ]_vars

\* the only load there is fetches from the network although the cache holds
\* its identifier
C9_Witness ==
  /\ Len(loads) = 1
  /\ loads[1].stage = "decode"
  /\ loads[1].request = pdfOptions(loads[1].url)
  /\ \E e \in cache : e.key = loads[1].url

\* C10: no key is written twice: two loads are never both at PDFCache.set for
\* the same identifier.
C10_KeyWrittenAtMostOnce ==
  \A i \in 1..Len(loads) : \A j \in 1..Len(loads) :
    (i # j /\ loads[i].stage = "set" /\ loads[j].stage = "set")
    => loads[i].url # loads[j].url

\* C11: the cache is read and written under the identifier the host passed,
\* never under the rewritten location: a write adds at most the entry keyed
\* by the load's url, a lookup is answered from the entry keyed by the load's
\* url, and no entry is ever keyed by a location that differs from its
\* identifier.
C11_CacheKeyIsOriginalIdentifier ==
  [][ /\ \A i \in 1..Len(loads) :
           /\ (loads[i].stage = "set" /\ loads'[i].stage # "set")
                => cache' \subseteq
                     cache \cup {[key |-> loads[i].url,
                                  bytes |-> BytesOf(loads[i].url)]}
           /\ (loads[i].stage = "get" /\ loads'[i].cachedData # Absent)
                => [key |-> loads[i].url, bytes |-> loads'[i].cachedData] \in cache
      /\ \A e \in cache' :
           e.key \in Urls /\ (finalUrl(e.key) # e.key => \A f \in cache' :
                                                          f.key # finalUrl(e.key))
    ]_vars

\* a second load of the arxiv.org identifier, whose location is rewritten,
\* runs on the bytes an earlier load of it fetched and stored
C11_Witness ==
  \E i \in 1..Len(loads) :
    /\ loads[i].url = UrlA
    /\ finalUrl(UrlA) # UrlA
    /\ loads[i].request = DataRequest
    /\ loads[i].cachedData = BytesOf(UrlA)
    /\ \E j \in 1..(i - 1) : loads[j].url = UrlA /\ loads[j].stage = "done"

\* C12: onLoad is called only when a load of the current source succeeds,
\* once for that load and with its document's page count, and it leaves the
\* viewer ready: that document set, loading cleared, no error.
C12_OnLoadOnlyForCurrentSource ==
  [][ onLoadLast' # onLoadLast =>
        LET i == onLoadLast'.load IN
        /\ onLoadLast'.n = onLoadLast.n + 1
        /\ i \in 1..Len(loads)
        /\ loads[i].url = url
        /\ loads[i].stage \notin {"done", "failed"}
        /\ loads'[i].stage = "done"
        /\ onLoadLast'.totalPages = numPages(BytesOf(url))
        /\ pdf' = Doc(i, BytesOf(url))
        /\ loading' = FALSE
        /\ error' = NoError ]_vars

\* C13: a loadPDF call is started only by a step that changes url to another,
\* non-empty value, and it is a lookup of that value; a call that has settled
\* (failed or done) never runs again: a page change, a resize or another
\* promise settling starts no lookup, fetch or decode.
C13_LoadStartsOnlyOnUrlChange ==
  [][ /\ Len(loads') >= Len(loads)
      /\ Len(loads') > Len(loads) =>
           /\ url' # url
           /\ url' # NoUrl
           /\ loads' = Append(loads, NewLoad(url'))
      /\ \A i \in 1..Len(loads) :
           loads[i].stage \in {"done", "failed"} => loads'[i] = loads[i] ]_vars

\* the load of the current source has failed, and the page has been changed,
\* the window resized and a renderPage call has settled around it
C13_Witness ==
  /\ loads # <<>>
  /\ loads[Len(loads)].stage = "failed"
  /\ loads[Len(loads)].url = url
  /\ error = LoadErrorMessage(loads[Len(loads)].reason)
  /\ page = 2
  /\ containerWidth = 800
  /\ \E r \in 1..Len(renders) : renders[r].stage \in {"done", "failed"}

\* C14: with a document shown and the resize listener registered, once every
\* renderPage call has completed, the canvas has the backing-store and
\* display size of the current page at the current container width and pixel
\* ratio, and the viewport last passed to onRender is that page's at that
\* width.
C14_SettledSurfaceMatchesDisplay ==
  ( /\ pdf # NoDoc
    /\ error = NoError
    /\ listener = [on |-> TRUE, pdf |-> pdf, page |-> page]
    /\ renders # <<>>
    /\ \A r \in 1..Len(renders) : renders[r].stage = "done" )
  => LET viewport == UnitViewport(pdf, page)
         scaledViewport ==
           getViewport(viewport, Frac(containerWidth, viewport.width))
     IN /\ canvas = SizedCanvas(scaledViewport, outputScaleOf(devicePixelRatio))
        /\ onRenderLast.viewport = scaledViewport

\* C15: when the getPage callback of a renderPage call runs, with container
\* width cw, the page's unit-scale size iw x ih and a positive pixel ratio
\* n/d, the scale is cw/iw, the display size is the floor of the scaled size
\* (cw x floor(ih*cw/iw)), the backing store is the floor of the scaled size
\* times the ratio, and a transform (the ratio on the diagonal) is passed
\* exactly when the ratio is not 1. Width 800, page width 600 and ratio 2
\* give display width 800 and backing-store width 1600.
C15_RenderGeometry ==
  [][ \A r \in 1..Len(renders) :
        ( /\ renders[r].stage = "getPage"
          /\ renders'[r].stage = "render"
          /\ devicePixelRatio.num > 0 )
        => LET cw == containerWidth
               iw == UnitViewport(renders[r].pdf, renders[r].page).width
               ih == UnitViewport(renders[r].pdf, renders[r].page).height
               n == devicePixelRatio.num
               d == devicePixelRatio.den
           IN /\ renders'[r].viewport.scale = [num |-> cw, den |-> iw]
              /\ canvas'.styleWidth = cw
              /\ canvas'.styleHeight = (ih * cw) \div iw
              /\ canvas'.width = (cw * n) \div d
              /\ canvas'.height = (ih * cw * n) \div (iw * d)
              /\ (renders'[r].transform = <<>>) <=> (n = d)
              /\ n # d => renders'[r].transform =
                            <<devicePixelRatio, 0, 0, devicePixelRatio, 0, 0>>
              /\ (cw = 800 /\ iw = 600 /\ n = 2 /\ d = 1)
                   => canvas'.styleWidth = 800 /\ canvas'.width = 1600 ]_vars

\* the canvas sized for width 800, unit page width 600 and ratio 2
C15_Witness ==
  /\ renders[1].stage = "render"
  /\ renders[1].containerWidth = 800
  /\ UnitViewport(renders[1].pdf, renders[1].page).width = 600
  /\ renders[1].outputScale = Frac(2, 1)
  /\ canvas.styleWidth = 800
  /\ canvas.width = 1600

\* C16: the error message, the loading status and the rendering overlay are
\* never shown together; no error is shown while the load of the current
\* source is in progress, and none after the current source has loaded.
C16_OneViewerStateActive ==
  /\ ~(error # NoError /\ loading)
  /\ (loads # <<>> /\ loads[Len(loads)].url = url)
       => /\ loads[Len(loads)].stage \notin {"done", "failed"}
               => error = NoError
          /\ loads[Len(loads)].stage = "done" => error = NoError

C18_LoadingWhileCurrentLoadInFlight ==
  ( /\ loads # <<>>
    /\ loads[Len(loads)].url = url
    /\ loads[Len(loads)].stage \notin {"done", "failed"} )
  => loading

\* C19: rendering is true while a renderPage call for the current document
\* and page has not settled, whichever of the render effect and the resize
\* listener made the call.
C19_RenderingWhileCurrentRenderInFlight ==
  ( /\ pdf # NoDoc
    /\ \E r \in 1..Len(renders) :
         /\ renders[r].stage \in {"getPage", "render"}
         /\ renders[r].pdf = pdf
         /\ renders[r].page = page )
  => rendering

====
